---- MODULE Spec2Model ----
(***************************************************************************)
(* movesmallpix.py: scan a directory tree for image files, transfer the    *)
(* ones below a size threshold into <root>/<timestamp>/, report, and       *)
(* optionally prune empty directories, in an interactive loop.             *)
(*                                                                         *)
(* Strings are sequences of one-character strings.  A path of the file     *)
(* system is a sequence of name components.                                *)
(***************************************************************************)
EXTENDS Integers, Sequences, FiniteSets, TLC

(* ------------------------------------------------------------------ *)
(* Bounds of the model                                                 *)
(* ------------------------------------------------------------------ *)

\* number of iterations of the outer loop whose scan is walked; the
\* iteration after them still reads its prompts and starts its scan
MaxRuns == 1

(* ------------------------------------------------------------------ *)
(* str methods                                                         *)
(* ------------------------------------------------------------------ *)

UpperAlpha == <<"A","B","C","D","E","F","G","H","I","J","K","L","M",
                "N","O","P","Q","R","S","T","U","V","W","X","Y","Z">>
LowerAlpha == <<"a","b","c","d","e","f","g","h","i","j","k","l","m",
                "n","o","p","q","r","s","t","u","v","w","x","y","z">>
Digits == <<"0","1","2","3","4","5","6","7","8","9">>

IndexIn(c, alphabet) ==
    IF \E i \in DOMAIN alphabet : alphabet[i] = c
    THEN CHOOSE i \in DOMAIN alphabet : alphabet[i] = c
    ELSE 0

\* str.lower(), one character
LowerChar(c) ==
    IF IndexIn(c, UpperAlpha) > 0 THEN LowerAlpha[IndexIn(c, UpperAlpha)] ELSE c

\* str.lower()
Lower(s) == [i \in DOMAIN s |-> LowerChar(s[i])]

\* str.upper(), used by the report line
UpperChar(c) ==
    IF IndexIn(c, LowerAlpha) > 0 THEN UpperAlpha[IndexIn(c, LowerAlpha)] ELSE c

Upper(s) == [i \in DOMAIN s |-> UpperChar(s[i])]

\* str.strip(): drop leading and trailing blanks
RECURSIVE LStrip(_)
LStrip(s) == IF s # <<>> /\ Head(s) = " " THEN LStrip(Tail(s)) ELSE s

RECURSIVE RStrip(_)
RStrip(s) ==
    IF s # <<>> /\ s[Len(s)] = " " THEN RStrip(SubSeq(s, 1, Len(s) - 1)) ELSE s

Strip(s) == RStrip(LStrip(s))

(* ------------------------------------------------------------------ *)
(* int(), str() as convert_type                                        *)
(* ------------------------------------------------------------------ *)

RECURSIVE DigitsValue(_, _)
DigitsValue(s, acc) ==
    IF s = <<>> THEN acc
    ELSE DigitsValue(Tail(s), 10 * acc + (IndexIn(Head(s), Digits) - 1))

AllDigits(s) == s # <<>> /\ \A i \in DOMAIN s : IndexIn(s[i], Digits) > 0

\* int(user_input): an optional sign and decimal digits, or ValueError
ConvertInt(s) ==
    LET t == Strip(s)
        signed == t # <<>> /\ Head(t) \in {"+", "-"}
        body == IF signed THEN Tail(t) ELSE t
    IN  IF AllDigits(body)
        THEN [ok |-> TRUE,
              value |-> IF signed /\ Head(t) = "-"
                        THEN 0 - DigitsValue(body, 0) ELSE DigitsValue(body, 0)]
        ELSE [ok |-> FALSE, value |-> 0]

\* str(user_input) never fails
ConvertStr(s) == [ok |-> TRUE, value |-> s]

\* prompt_user giving up after a failed conversion: the default is returned
\* where the loop should prompt again
prompt_user_no_retry(line, has_default, default, convert_type) ==
    LET user_input == Strip(line)
        r == IF convert_type = "int" THEN ConvertInt(user_input)
             ELSE ConvertStr(user_input)
    IN  IF (user_input = <<>> /\ has_default) \/ ~r.ok
        THEN [ok |-> TRUE, value |-> default]
        ELSE r

\* one pass of the loop of prompt_user on the line read: the value to
\* return, or ok = FALSE when the loop prompts again
prompt_user(line, has_default, default, convert_type) ==
    LET user_input == Strip(line)
    IN  IF user_input = <<>> /\ has_default
        THEN [ok |-> TRUE, value |-> default]
        ELSE IF convert_type = "int" THEN ConvertInt(user_input)
             ELSE ConvertStr(user_input)

(* ------------------------------------------------------------------ *)
(* os.path                                                             *)
(* ------------------------------------------------------------------ *)

LastIndexOf(s, c) ==
    IF \E i \in DOMAIN s : s[i] = c
    THEN CHOOSE i \in DOMAIN s : s[i] = c /\ \A j \in DOMAIN s : s[j] = c => j <= i
    ELSE 0

\* os.path.splitext(p)[1]: from the last dot on, unless every character
\* before that dot is a dot
splitext(name) ==
    LET d == LastIndexOf(name, ".")
    IN  IF d > 0 /\ \E i \in 1..(d - 1) : name[i] # "."
        THEN SubSeq(name, d, Len(name))
        ELSE <<>>

\* os.path.basename(p): what follows the last separator
basename(p) == SubSeq(p, LastIndexOf(p, "/") + 1, Len(p))

\* the components of a relative path string, empty components dropped
RECURSIVE Components(_, _, _)
Components(p, cur, acc) ==
    IF p = <<>> THEN (IF cur = <<>> THEN acc ELSE Append(acc, cur))
    ELSE IF Head(p) = "/"
         THEN Components(Tail(p), <<>>, IF cur = <<>> THEN acc ELSE Append(acc, cur))
         ELSE Components(Tail(p), Append(cur, Head(p)), acc)

Resolve(p) == Components(p, <<>>, <<>>)

(* ------------------------------------------------------------------ *)
(* Names, inputs and the file system                                   *)
(* ------------------------------------------------------------------ *)

\* 1 KB of the program is 1024 bytes (get_file_size_kb)
KiB == 1024
\* default of the size prompt
DefaultMinSizeKb == 90

nRoot == <<"r">>
nA == <<"A">>
nB == <<"B">>
nC == <<"C">>
fA == <<"a", ".", "j", "p", "g">>
fB == <<"b", ".", "p", "n", "g">>
fX == <<"x", ".", "j", "p", "g">>
fE == <<"e", ".", "J", "P", "G">>
fW == <<"w", ".", "w", "e", "b", "p">>
fN == <<"n", ".", "t", "x", "t">>

pRoot == <<nRoot>>

\* the files of the initial trees: path, size in bytes, content
cA == [path |-> <<nRoot, fA>>,         bytes |-> 50 * KiB,  data |-> 1]
cB == [path |-> <<nRoot, fB>>,         bytes |-> 200 * KiB, data |-> 2]
cAX == [path |-> <<nRoot, nA, fX>>,    bytes |-> 10 * KiB,  data |-> 3]
cBX == [path |-> <<nRoot, nB, fX>>,    bytes |-> 60 * KiB,  data |-> 4]
cE == [path |-> <<nRoot, fE>>,         bytes |-> 90 * KiB,  data |-> 5]
cW == [path |-> <<nRoot, nA, fW>>,     bytes |-> 5 * KiB,   data |-> 6]
cN == [path |-> <<nRoot, nA, nC, fN>>, bytes |-> KiB,       data |-> 7]

Nested == {pRoot, <<nRoot, nA>>, <<nRoot, nA, nC>>}
Siblings == {pRoot, <<nRoot, nA>>, <<nRoot, nB>>}

\* the initial trees: no file; one small image in the root; a small and a
\* large image in the root; the same name in two subdirectories; an image
\* of exactly the default threshold beside a file that is no image; a
\* .webp image
InitialTrees ==
    { [dirs |-> Nested, files |-> {}],
      [dirs |-> Nested, files |-> {cA}],
      [dirs |-> Nested, files |-> {cA, cB}],
      [dirs |-> Siblings, files |-> {cAX, cBX}],
      [dirs |-> Nested, files |-> {cE, cN}],
      [dirs |-> Nested, files |-> {cW}] }

TreeFiles(t) ==
    [p \in { c.path : c \in t } |->
        LET c == CHOOSE c \in t : c.path = p
        IN  [bytes |-> c.bytes, data |-> c.data]]

\* Image.registered_extensions().keys() of the host: without and with .webp
Registries ==
    { << <<".", "j", "p", "g">>, <<".", "p", "n", "g">> >>,
      << <<".", "j", "p", "g">>, <<".", "p", "n", "g">>, <<".", "w", "e", "b", "p">> >> }

\* the lines the operator types at each prompt
DirInputs == { <<"r">>, <<"q">>, <<>> }
SizeInputs == { <<>>, <<" ", "5", "0">>, <<"9", "o">> }
MoveInputs == { <<>>, <<"Y">> }
DeleteInputs == { <<>>, <<"y">> }
NextInputs == { <<"e">>, <<"E">>, <<>>, <<"n">> }

VARIABLES
    pc,                  \* position in main()
    args_help,           \* args.help
    fsDirs,              \* the directories of the file system
    fsFiles,             \* the files of the file system: path -> bytes, data
    registered_extensions,
    clock,               \* datetime.now(), in seconds
    user_input,          \* the line last read by prompt_user, stripped
    root_dir, min_size_kb, move_files, image_formats,
    files_found, files_moved, files_found_data, files_moved_data,
    destination_dir,
    walk_stack, walk_dir, walk_files,    \* the os.walk of the scan
    report,              \* what the summary printed
    delete_empty,
    deleted,             \* the directories the last pruning logged as deleted
    next_action,
    runs,                \* iterations that started their scan
    files_at_start       \* fsFiles when the scan of this iteration began

vars == << pc, args_help, fsDirs, fsFiles, registered_extensions, clock,
           user_input, root_dir, min_size_kb, move_files, image_formats,
           files_found, files_moved, files_found_data, files_moved_data,
           destination_dir, walk_stack, walk_dir, walk_files, report,
           delete_empty, deleted, next_action, runs, files_at_start >>

fsVars == << fsDirs, fsFiles >>
promptVars == << user_input, root_dir, min_size_kb, move_files, delete_empty, next_action >>
scanVars == << image_formats, files_found, files_moved, files_found_data,
               files_moved_data, destination_dir, files_at_start >>
walkVars == << walk_stack, walk_dir, walk_files >>

\* os.path.isdir
isdir(p) == p # <<>> /\ Resolve(p) \in fsDirs

\* the entries of directory d
FileNamesIn(files, d) ==
    { p[Len(p)] : p \in { q \in DOMAIN files : Len(q) = Len(d) + 1 /\ SubSeq(q, 1, Len(d)) = d } }
SubDirsIn(dirs, d) ==
    { q \in dirs : Len(q) = Len(d) + 1 /\ SubSeq(q, 1, Len(d)) = d }

Without(f, p) == [q \in DOMAIN f \ {p} |-> f[q]]

\* shutil.copy(src, dst), dst not a directory: dst is written or overwritten
copy(files, src, dst) == (dst :> files[src]) @@ files

\* shutil.move(src, dst), dst not a directory: os.rename, which replaces dst
move(files, src, dst) == (dst :> files[src]) @@ Without(files, src)

\* get_file_size_kb, in units of 1/1024 KB
get_file_size_kb(files, file_path) == files[file_path].bytes

\* the comparison with <= in place of <
IsSmallOrEqual(file_size_kb, min_kb) == file_size_kb <= min_kb * KiB

\* file_size_kb < min_size_kb
IsSmall(file_size_kb, min_kb) == file_size_kb < min_kb * KiB

\* datetime.now().strftime("%Y%m%d_%H%M%S")
Timestamp(t) ==
    <<"2", "0", "2", "4", "0", "1", "0", "1", "_", "0", "0", "0", "0",
      Digits[(t \div 10) + 1], Digits[(t % 10) + 1]>>

get_image_formats(registry) ==
    [i \in DOMAIN registry |-> Lower(registry[i])] \o << <<".", "w", "e", "b", "p">> >>

Init ==
    /\ pc = "start"
    /\ args_help \in BOOLEAN
    /\ \E t \in InitialTrees : fsDirs = t.dirs /\ fsFiles = TreeFiles(t.files)
    /\ registered_extensions \in Registries
    /\ clock = 0
    /\ user_input = <<>>
    /\ root_dir = <<>>
    /\ min_size_kb = 0
    /\ move_files = FALSE
    /\ image_formats = <<>>
    /\ files_found = 0
    /\ files_moved = 0
    /\ files_found_data = <<>>
    /\ files_moved_data = <<>>
    /\ destination_dir = <<>>
    /\ walk_stack = <<>>
    /\ walk_dir = <<>>
    /\ walk_files = {}
    /\ report = [total_found |-> 0, total_moved |-> 0, lines |-> <<>>,
                 avg_size_found |-> [num |-> 0, den |-> 1],
                 avg_size_moved |-> [num |-> 0, den |-> 1]]
    /\ delete_empty = FALSE
    /\ deleted = {}
    /\ next_action = <<>>
    /\ runs = 0
    /\ files_at_start = <<>>

(* ------------------------------------------------------------------ *)
(* main()                                                              *)
(* ------------------------------------------------------------------ *)

\* lines 58-64: --help prints the usage text and returns
ShowHelp ==
    /\ pc = "start"
    /\ args_help
    /\ pc' = "exited"
    /\ UNCHANGED << args_help, fsVars, registered_extensions, clock, promptVars,
                    scanVars, walkVars, report, deleted, runs >>

EnterLoop ==
    /\ pc = "start"
    /\ ~args_help
    /\ pc' = "dir_prompt"
    /\ UNCHANGED << args_help, fsVars, registered_extensions, clock, promptVars,
                    scanVars, walkVars, report, deleted, runs >>

\* lines 67-70: the directory prompt and the isdir check
DirPrompt ==
    /\ pc = "dir_prompt"
    /\ \E line \in DirInputs :
         LET r == prompt_user(line, FALSE, <<>>, "str")
         IN  /\ user_input' = Strip(line)
             /\ root_dir' = r.value
             /\ pc' = IF isdir(r.value) THEN "size_prompt" ELSE "dir_prompt"
    /\ UNCHANGED << args_help, fsVars, registered_extensions, clock, min_size_kb,
                    move_files, delete_empty, next_action, scanVars, walkVars,
                    report, deleted, runs >>

\* line 72: one line read by the size prompt
SizePrompt ==
    /\ pc = "size_prompt"
    /\ \E line \in SizeInputs :
         LET r == prompt_user(line, TRUE, DefaultMinSizeKb, "int")
         IN  /\ user_input' = Strip(line)
             /\ IF r.ok
                THEN min_size_kb' = r.value /\ pc' = "move_prompt"
                ELSE UNCHANGED min_size_kb /\ pc' = "size_prompt"
    /\ UNCHANGED << args_help, fsVars, registered_extensions, clock, root_dir,
                    move_files, delete_empty, next_action, scanVars, walkVars,
                    report, deleted, runs >>

\* line 73
MovePrompt ==
    /\ pc = "move_prompt"
    /\ \E line \in MoveInputs :
         LET r == prompt_user(line, TRUE, <<"n">>, "str")
         IN  /\ user_input' = Strip(line)
             /\ move_files' = (Lower(r.value) = <<"y">>)
    /\ pc' = "start_scan"
    /\ UNCHANGED << args_help, fsVars, registered_extensions, clock, root_dir,
                    min_size_kb, delete_empty, next_action, scanVars, walkVars,
                    report, deleted, runs >>

\* lines 75-87: fresh counters and lists, the destination directory, and
\* the os.walk generator of the scan
StartScan ==
    /\ pc = "start_scan"
    /\ image_formats' = get_image_formats(registered_extensions)
    /\ files_found' = 0
    /\ files_moved' = 0
    /\ files_found_data' = <<>>
    /\ files_moved_data' = <<>>
    /\ destination_dir' = Append(Resolve(root_dir), Timestamp(clock))
    /\ fsDirs' = fsDirs \cup {destination_dir'}
    /\ walk_stack' = << {Resolve(root_dir)} >>
    /\ walk_dir' = <<>>
    /\ walk_files' = {}
    /\ files_at_start' = fsFiles
    /\ runs' = runs + 1
    /\ pc' = "scan"
    /\ UNCHANGED << args_help, fsFiles, registered_extensions, clock, promptVars,
                    report, deleted >>

\* the stack of a walk with d taken from its top
PopDir(stack, d) ==
    LET top == stack[Len(stack)]
        rest == SubSeq(stack, 1, Len(stack) - 1)
    IN  IF top = {d} THEN rest ELSE Append(rest, top \ {d})

PushDirs(stack, dirs) == IF dirs = {} THEN stack ELSE Append(stack, dirs)

\* line 87: os.walk(root_dir) lists the next directory, in depth-first
\* order, the order among siblings being that of the file system
WalkNext ==
    /\ pc = "scan"
    /\ runs <= MaxRuns
    /\ walk_files = {}
    /\ walk_stack # <<>>
    /\ \E d \in walk_stack[Len(walk_stack)] :
         IF d \in fsDirs
         THEN /\ walk_dir' = d
              /\ walk_files' = FileNamesIn(fsFiles, d)
              /\ walk_stack' = PushDirs(PopDir(walk_stack, d), SubDirsIn(fsDirs, d))
         ELSE /\ walk_stack' = PopDir(walk_stack, d)
              /\ UNCHANGED << walk_dir, walk_files >>
    /\ UNCHANGED << pc, args_help, fsVars, registered_extensions, clock, promptVars,
                    scanVars, report, deleted, runs >>

\* line 89
IsImage(filename, formats) ==
    \E i \in DOMAIN formats : formats[i] = splitext(Lower(filename))

\* line 96
NewFileName(root, filename) == basename(root) \o <<"_">> \o filename

\* the transfer that moves whatever the mode
TransferAlwaysMove(files, by_move, src, dst) == move(files, src, dst)

\* line 98
Transfer(files, by_move, src, dst) ==
    IF by_move THEN move(files, src, dst) ELSE copy(files, src, dst)

\* lines 88-100: the body of the scan for one file name of the listing
ProcessFile ==
    /\ pc = "scan"
    /\ \E filename \in walk_files :
         LET file_path == Append(walk_dir, filename)
             file_size_kb == get_file_size_kb(fsFiles, file_path)
             new_file_path == Append(destination_dir, NewFileName(root_dir, filename))
         IN  /\ walk_files' = walk_files \ {filename}
             /\ IF IsImage(filename, image_formats)
                THEN /\ files_found' = files_found + 1
                     /\ files_found_data' =
                            Append(files_found_data, <<file_path, file_size_kb>>)
                     /\ IF IsSmall(file_size_kb, min_size_kb)
                        THEN /\ fsFiles' = Transfer(fsFiles, move_files, file_path, new_file_path)
                             /\ files_moved' = files_moved + 1
                             /\ files_moved_data' =
                                    Append(files_moved_data, <<file_path, file_size_kb>>)
                        ELSE UNCHANGED << fsFiles, files_moved, files_moved_data >>
                ELSE UNCHANGED << fsFiles, files_found, files_found_data,
                                  files_moved, files_moved_data >>
    /\ UNCHANGED << pc, args_help, fsDirs, registered_extensions, clock, promptVars,
                    image_formats, destination_dir, files_at_start, walk_stack,
                    walk_dir, report, deleted, runs >>

RECURSIVE CountExt(_, _)
CountExt(data, fmt) ==
    IF data = <<>> THEN 0
    ELSE (IF splitext(Lower(Head(data)[1][Len(Head(data)[1])])) = fmt THEN 1 ELSE 0)
         + CountExt(Tail(data), fmt)

RECURSIVE SumSizes(_)
SumSizes(data) == IF data = <<>> THEN 0 ELSE Head(data)[2] + SumSizes(Tail(data))

\* lines 112-113: the average in KB as a fraction, 0 for an empty list
Average(data) ==
    IF data = <<>> THEN [num |-> 0, den |-> 1]
    ELSE [num |-> SumSizes(data), den |-> KiB * Len(data)]

\* lines 106-110: one line per entry of image_formats with a found file
RECURSIVE FormatLines(_, _, _)
FormatLines(formats, found, moved) ==
    IF formats = <<>> THEN <<>>
    ELSE LET fmt == Head(formats)
             count_found == CountExt(found, fmt)
             count_moved == CountExt(moved, fmt)
             rest == FormatLines(Tail(formats), found, moved)
         IN  IF count_found > 0
             THEN << [fmt |-> Upper(fmt), found |-> count_found, moved |-> count_moved] >> \o rest
             ELSE rest

\* lines 102-116: the generator of the walk is exhausted; the summary
Report ==
    /\ pc = "scan"
    /\ runs <= MaxRuns
    /\ walk_files = {}
    /\ walk_stack = <<>>
    /\ report' = [total_found |-> files_found,
                  total_moved |-> files_moved,
                  lines |-> FormatLines(image_formats, files_found_data, files_moved_data),
                  avg_size_found |-> Average(files_found_data),
                  avg_size_moved |-> Average(files_moved_data)]
    /\ walk_dir' = <<>>
    /\ pc' = "delete_prompt"
    /\ UNCHANGED << args_help, fsVars, registered_extensions, clock, promptVars,
                    scanVars, walk_stack, walk_files, deleted, runs >>

(* ------------------------------------------------------------------ *)
(* delete_empty_dirs                                                   *)
(* ------------------------------------------------------------------ *)

\* os.rmdir(d) succeeds on an empty directory only
CanRmdir(dirs, files, d) ==
    d \in dirs /\ SubDirsIn(dirs, d) = {} /\ FileNamesIn(files, d) = {}

\* the body testing the file names only and removing the whole subtree
PruneBodyTree(st, dirpath, dirnames, filenames) ==
    LET Below(q) == Len(q) >= Len(dirpath) /\ SubSeq(q, 1, Len(dirpath)) = dirpath
    IN  IF filenames = {}
        THEN [st EXCEPT !.dirs = { q \in st.dirs : ~Below(q) },
                        !.files = [q \in { x \in DOMAIN st.files : ~Below(x) } |-> st.files[q]],
                        !.deleted = st.deleted \cup {dirpath}]
        ELSE st

\* lines 31-33: the body of the loop for one yielded listing, on the file
\* system st: os.rmdir when both lists of the listing are empty
PruneBody(st, dirpath, dirnames, filenames) ==
    IF dirnames = {} /\ filenames = {}
    THEN IF CanRmdir(st.dirs, st.files, dirpath)
         THEN [st EXCEPT !.dirs = st.dirs \ {dirpath},
                         !.deleted = st.deleted \cup {dirpath}]
         ELSE [st EXCEPT !.raised = TRUE]
    ELSE st

\* line 30: os.walk(top, topdown=False) lists a directory when it reaches
\* it, walks the subdirectories of that listing, and only then yields the
\* listing to the body.  The order among siblings is the file system's; the
\* body of one directory reads and changes nothing of its siblings.
RECURSIVE WalkBottomUp(_, _)
RECURSIVE WalkSubDirs(_, _)
WalkBottomUp(st, top) ==
    IF st.raised \/ top \notin st.dirs THEN st
    ELSE LET subdirs == SubDirsIn(st.dirs, top)
             dirnames == { q[Len(q)] : q \in subdirs }
             filenames == FileNamesIn(st.files, top)
         IN  PruneBody(WalkSubDirs(st, subdirs), top, dirnames, filenames)
WalkSubDirs(st, subdirs) ==
    IF subdirs = {} \/ st.raised THEN st
    ELSE LET d == CHOOSE d \in subdirs : TRUE
         IN  WalkSubDirs(WalkBottomUp(st, d), subdirs \ {d})

delete_empty_dirs(dirs, files, root) ==
    WalkBottomUp([dirs |-> dirs, files |-> files, raised |-> FALSE, deleted |-> {}],
                 Resolve(root))

\* lines 119-121: the prompt, and the pruning when the answer is y
DeletePrompt ==
    /\ pc = "delete_prompt"
    /\ \E line \in DeleteInputs :
         LET r == prompt_user(line, TRUE, <<"n">>, "str")
         IN  /\ user_input' = Strip(line)
             /\ delete_empty' = (Lower(r.value) = <<"y">>)
    /\ IF delete_empty'
       THEN LET st == delete_empty_dirs(fsDirs, fsFiles, root_dir)
            IN  /\ fsDirs' = st.dirs
                /\ fsFiles' = st.files
                /\ deleted' = st.deleted
                /\ pc' = IF st.raised THEN "crashed" ELSE "next_prompt"
       ELSE pc' = "next_prompt" /\ UNCHANGED << fsVars, deleted >>
    /\ UNCHANGED << args_help, registered_extensions, clock, root_dir,
                    min_size_kb, move_files, next_action, scanVars, walkVars,
                    report, runs >>

\* the answer compared as typed
NextActionAsTyped(value) == value

\* line 124: the answer, lowercased
NextAction(value) == Lower(value)

\* lines 124-127: "e" leaves the loop, anything else starts it again; the
\* clock may have moved on by a second when the next iteration reads it
NextPrompt ==
    /\ pc = "next_prompt"
    /\ \E line \in NextInputs :
         LET r == prompt_user(line, TRUE, <<"n">>, "str")
         IN  /\ user_input' = Strip(line)
             /\ next_action' = NextAction(r.value)
    /\ IF next_action' = <<"e">>
       THEN pc' = "exited" /\ UNCHANGED clock
       ELSE pc' = "dir_prompt" /\ clock' \in {clock, clock + 1}
    /\ UNCHANGED << args_help, fsVars, registered_extensions, root_dir,
                    min_size_kb, move_files, delete_empty, scanVars, walkVars,
                    report, deleted, runs >>

Next ==
    \/ ShowHelp
    \/ EnterLoop
    \/ DirPrompt
    \/ SizePrompt
    \/ MovePrompt
    \/ StartScan
    \/ WalkNext
    \/ ProcessFile
    \/ Report
    \/ DeletePrompt
    \/ NextPrompt

Spec == Init /\ [][Next]_vars

(* ------------------------------------------------------------------ *)
(* Properties                                                          *)
(* ------------------------------------------------------------------ *)

Range(seq) == { seq[i] : i \in DOMAIN seq }
NameOf(path) == path[Len(path)]
DirOf(path) == SubSeq(path, 1, Len(path) - 1)
InIteration == pc \in {"scan", "delete_prompt", "next_prompt", "exited", "crashed"}
TheRoot == Resolve(root_dir)

\* C1: in every run of the scan, each record of files_moved_data is a
\* record of files_found_data (same path, same size) and its size is
\* strictly below min_size_kb; and a step of the scan changes the files only
\* while it handles a file whose size is strictly below min_size_kb, which
\* it appends to both lists.
C1_MovedAreFoundAndSmall ==
    /\ [](InIteration =>
            \A rec \in Range(files_moved_data) :
                /\ rec \in Range(files_found_data)
                /\ rec[2] < min_size_kb * KiB)
    /\ [][(pc = "scan" /\ fsFiles' # fsFiles) =>
            \E filename \in walk_files :
                LET rec == << Append(walk_dir, filename),
                              fsFiles[Append(walk_dir, filename)].bytes >>
                IN  /\ walk_files' = walk_files \ {filename}
                    /\ rec[2] < min_size_kb * KiB
                    /\ files_found_data' = Append(files_found_data, rec)
                    /\ files_moved_data' = Append(files_moved_data, rec)]_vars

\* a scan that transferred a file and left a found file of at least the
\* threshold alone
C1_Witness ==
    /\ pc = "scan"
    /\ files_moved_data # <<>>
    /\ \E rec \in Range(files_found_data) :
          rec[2] >= min_size_kb * KiB /\ rec \notin Range(files_moved_data)

\* C2: when every file under the root at the start of the run is an image,
\* the run reports found = the number of those files and moved = the number
\* of those below the threshold; what the run itself puts into its
\* destination directory is not counted.
C2_CountsAreOfInitialFiles ==
    (/\ pc = "delete_prompt"
     /\ \A p \in DOMAIN files_at_start : IsImage(NameOf(p), image_formats))
    => /\ report.total_found = Cardinality(DOMAIN files_at_start)
       /\ report.total_moved =
            Cardinality({ p \in DOMAIN files_at_start :
                            files_at_start[p].bytes < min_size_kb * KiB })

\* C3: in move mode, when the scan ends, every transferred file is gone
\* from its source path and the destination directory holds a file named
\* basename(root) + "_" + its file name.
C3_MovedSourcesGoneAndRenamed ==
    (pc = "delete_prompt" /\ move_files)
    => \A rec \in Range(files_moved_data) :
          /\ rec[1] \notin DOMAIN fsFiles
          /\ Append(destination_dir, basename(root_dir) \o <<"_">> \o NameOf(rec[1]))
                \in DOMAIN fsFiles

\* C4: in copy mode every file that existed when the run began still exists
\* at its path during and at the end of the scan.
C4_CopyKeepsEveryFile ==
    (pc \in {"scan", "delete_prompt"} /\ ~move_files)
    => DOMAIN files_at_start \subseteq DOMAIN fsFiles

\* a finished scan in copy mode that recorded a file as moved
C4_Witness ==
    pc = "delete_prompt" /\ ~move_files /\ files_moved > 0

\* C5: after the pruning pass no empty directory remains below the scan
\* root.
C5_NoEmptyDirectoryRemains ==
    (pc = "next_prompt" /\ delete_empty)
    => \A d \in fsDirs :
          d # TheRoot => (SubDirsIn(fsDirs, d) # {} \/ FileNamesIn(fsFiles, d) # {})

\* C6: the pruning removes no file, and each directory it removes held no
\* file and no subdirectory that remains after the pass.
C6_PruneRemovesOnlyEmpty ==
    [][pc = "delete_prompt" =>
          /\ fsFiles' = fsFiles
          /\ \A d \in fsDirs \ fsDirs' :
                /\ FileNamesIn(fsFiles, d) = {}
                /\ \A c \in SubDirsIn(fsDirs, d) : c \notin fsDirs']_vars

\* a pruning that removed a directory and left one that holds a file
C6_Witness ==
    /\ pc = "next_prompt"
    /\ delete_empty
    /\ deleted # {}
    /\ \E d \in fsDirs : d # TheRoot /\ FileNamesIn(fsFiles, d) # {}

\* C7: without the help flag the program ends only at the last prompt and
\* only on the answer e or E; every other answer leads to the directory
\* prompt; and the scan of every iteration starts with empty lists and zero
\* counters, which count the records of that iteration alone.
C7_LoopEndsOnlyOnE ==
    /\ [][(~args_help /\ pc' = "exited") =>
            (pc = "next_prompt" /\ user_input' \in { <<"e">>, <<"E">> })]_vars
    /\ [][pc = "next_prompt" =>
            IF user_input' \in { <<"e">>, <<"E">> }
            THEN pc' = "exited" ELSE pc' = "dir_prompt"]_vars
    /\ [][pc = "start_scan" =>
            /\ files_found' = 0 /\ files_moved' = 0
            /\ files_found_data' = <<>> /\ files_moved_data' = <<>>]_vars
    /\ [](pc = "scan" =>
            /\ files_found = Len(files_found_data)
            /\ files_moved = Len(files_moved_data))

\* the scan of a second iteration starts afresh after a first one that
\* found a file
C7_Witness ==
    /\ pc = "scan"
    /\ runs = 2
    /\ report.total_found > 0
    /\ files_found = 0
    /\ files_found_data = <<>>

\* C8: a directory answer that is no existing directory leads back to the
\* directory prompt, a threshold answer that is no integer leads back to
\* the threshold prompt, and neither changes the file system; an empty
\* threshold answer gives 90, another one its integer value; and the file
\* system changes only once both have been obtained.
C8_InvalidAnswersPromptAgain ==
    /\ [][pc = "dir_prompt" =>
            IF root_dir' # <<>> /\ Resolve(root_dir') \in fsDirs
            THEN pc' = "size_prompt" /\ fsDirs' = fsDirs /\ fsFiles' = fsFiles
            ELSE pc' = "dir_prompt" /\ fsDirs' = fsDirs /\ fsFiles' = fsFiles]_vars
    /\ [][pc = "size_prompt" =>
            /\ fsDirs' = fsDirs /\ fsFiles' = fsFiles
            /\ IF user_input' = <<>>
               THEN pc' = "move_prompt" /\ min_size_kb' = 90
               ELSE IF ConvertInt(user_input').ok
               THEN pc' = "move_prompt" /\ min_size_kb' = ConvertInt(user_input').value
               ELSE pc' = "size_prompt" /\ min_size_kb' = min_size_kb]_vars
    /\ [][(fsDirs' # fsDirs \/ fsFiles' # fsFiles) =>
            pc \in {"start_scan", "scan", "delete_prompt"}]_vars
    /\ [](pc \in {"size_prompt", "move_prompt", "start_scan"} =>
            (root_dir # <<>> /\ TheRoot \in fsDirs))

\* the threshold prompt is issued again after an answer that is no integer
C8_Witness ==
    pc = "size_prompt" /\ user_input = <<"9", "o">>

\* C9: when two files of the same name from different directories are both
\* transferred, the destination directory ends with a file
\* basename(root) + "_" + name that holds the content of the one
\* transferred later.
C9_LastWriteWins ==
    pc = "delete_prompt"
    => \A i, j \in DOMAIN files_moved_data :
          LET a == files_moved_data[i][1]
              b == files_moved_data[j][1]
              dst == Append(destination_dir, basename(root_dir) \o <<"_">> \o NameOf(b))
              Later(k) == /\ k > j
                          /\ NameOf(files_moved_data[k][1]) = NameOf(b)
          IN  (/\ i < j
               /\ NameOf(a) = NameOf(b)
               /\ DirOf(a) # DirOf(b)
               /\ a \in DOMAIN files_at_start
               /\ b \in DOMAIN files_at_start
               /\ ~ \E k \in DOMAIN files_moved_data : Later(k))
              => /\ dst \in DOMAIN fsFiles
                 /\ fsFiles[dst].data = files_at_start[b].data

RECURSIVE SumFound(_)
SumFound(lines) == IF lines = <<>> THEN 0 ELSE Head(lines).found + SumFound(Tail(lines))

\* C10: image_formats holds each extension once, the summary prints one
\* line per extension with a found file, and the found counts of the lines
\* sum to the total found.
C10_FormatsAreASet ==
    /\ \A i, j \in DOMAIN image_formats :
          image_formats[i] = image_formats[j] => i = j
    /\ pc = "delete_prompt" =>
          /\ \A i, j \in DOMAIN report.lines :
                report.lines[i].fmt = report.lines[j].fmt => i = j
          /\ SumFound(report.lines) = report.total_found

====
